---- MODULE Spec2Model ----
(***************************************************************************)
(* Model of the go-metrics registry (metrics.go): the three kind-scoped    *)
(* maps of lazily created Prometheus vectors, the RWMutex guarding them,   *)
(* and the instrumentation verbs that resolve-or-create a vector and then  *)
(* apply an operation to one series of it.                                 *)
(*                                                                         *)
(* Each caller is one instrumentation call made by some goroutine (the     *)
(* goroutines keep no state between their calls); a call                   *)
(* is a sequence of steps (Invoke, Resolve, Create, With, Apply) that      *)
(* interleave with the steps of the other goroutines.  A Go panic raised   *)
(* by the Prometheus client (MustRegister, With, Counter.Add) unwinds the  *)
(* call: deferred functions run and the call ends with outcome "panic".    *)
(*                                                                         *)
(* The second part models the push pipeline (push.go): StartGrafanaPush,   *)
(* its background goroutine with a ticker and a cancellation context, and  *)
(* the steps of pushToGrafana (gather, encode, request, transmit, status). *)
(***************************************************************************)
EXTENDS Integers, Sequences, FiniteSets, TLC

\* ---- bounds of the model ----
NumCalls == 2

\* the clock of the push loop runs for MaxTime seconds: long enough for
\* three ticks of a 5 second ticker and one of the default 15 second one
MaxTime == 16

\* the HTTP requests that pass through the middleware, concurrently or one
\* after the other
NumReqs == 2

\* the callers: each makes one call; they run concurrently or one after
\* the other
Procs == 1..NumCalls

\* ---- the universe of inputs ----
Names == {"a", "b"}
None == 0

\* A label map (MetricLabels) is a set of <<key, value>> pairs with one
\* value per key; a nil map and an empty map are both the empty set.
LabelMaps == { {}, {<<"k1", "x">>}, {<<"k2", "x">>} }

CounterDeltas == {-1, 1, 2}
GaugeValues == {5}
HistogramValues == {2}

Kinds == {"counter", "gauge", "histogram"}

Range(s) == { s[i] : i \in 1..Len(s) }

LabelNames(labels) == { kv[1] : kv \in labels }

getLabelKeysNotAppended(labels) == {<<>>}

\* getLabelKeys: the keys of the map, appended in map iteration order,
\* which Go leaves unspecified: any permutation of the keys can result.
getLabelKeys(labels) ==
    LET K == LabelNames(labels)
        n == Cardinality(K)
    IN  { s \in [1..n -> K] : Range(s) = K }

\* The verbs of the instrumentation surface and the kind each resolves.
KindOf(verb) ==
    CASE verb = "IncrementCounterBy" -> "counter"
      [] verb \in {"SetGauge", "IncrementGauge", "DecrementGauge"} -> "gauge"
      [] verb = "RecordHistogram" -> "histogram"

\* The label maps the callers use with each name: every label map with
\* the first name, the empty one with the others (the names are handled
\* alike, so one name explores the label schemas and the others stand for
\* unrelated metrics).
LabelMapsOf(name) == IF name = "a" THEN LabelMaps ELSE {{}}

\* The calls on one name.
\* IncrementCounter(name, labels) is IncrementCounterBy(name, 1, labels).
CallsOn(name) ==
    [verb : {"IncrementCounterBy"}, name : {name}, value : CounterDeltas,
     labels : LabelMapsOf(name)]
    \cup [verb : {"SetGauge"}, name : {name}, value : GaugeValues,
          labels : LabelMapsOf(name)]
    \cup [verb : {"IncrementGauge", "DecrementGauge"}, name : {name}, value : {1},
          labels : LabelMapsOf(name)]
    \cup [verb : {"RecordHistogram"}, name : {name}, value : HistogramValues,
          labels : LabelMapsOf(name)]

Calls == UNION { CallsOn(name) : name \in Names }

NoCall == [verb |-> "none", name |-> "", value |-> 0, labels |-> {}]

\* The two metrics of the WebSocket connection helpers, and the calls the
\* helpers make: ConnectionOpened is IncrementGauge on the first and then
\* IncrementCounter on the second, ConnectionClosed is DecrementGauge on
\* the first; the label map is nil in all three.
WSNames == {"websocket_connections_active", "websocket_connections_total"}

OpenedActive ==
    [verb |-> "IncrementGauge", name |-> "websocket_connections_active",
     value |-> 1, labels |-> {}]

OpenedTotalTwice ==
    [verb |-> "IncrementCounterBy", name |-> "websocket_connections_total",
     value |-> 2, labels |-> {}]

OpenedTotal ==
    [verb |-> "IncrementCounterBy", name |-> "websocket_connections_total",
     value |-> 1, labels |-> {}]

ClosedActive ==
    [verb |-> "DecrementGauge", name |-> "websocket_connections_active",
     value |-> 1, labels |-> {}]

\* How a call ends: the verbs return nothing, so a call either returns
\* normally ("ok") or is unwound by a panic whose cause is recorded.
NoOutcome == [result |-> "none", cause |-> ""]
Running == [result |-> "running", cause |-> ""]
Returned == [result |-> "ok", cause |-> ""]
Panicked(cause) == [result |-> "panic", cause |-> cause]

\* the value of firstLabels before any call resolved the name
Unbound == {<<"", "">>}

VARIABLES
    counters,     \* m.counters: name -> vector (None when absent)
    gauges,       \* m.gauges
    histograms,   \* m.histograms
    registry,     \* m.registry: the set of registered vectors
    vecs,         \* every vector constructed so far, by identity
    mu,           \* m.mu: None when free, else the caller holding it
    pc,           \* position of each caller inside its call
    call,         \* the call each caller makes
    labelKeys,    \* the labelKeys argument of the running getOrCreate
    handle,       \* the vector returned by getOrCreate to the caller
    outcome,      \* how the caller's call ended
    issued,       \* per counter series: sum of the deltas of calls started
    failed,       \* calls that ended in a panic, as <<kind, name, labels>>
    firstLabels,  \* per kind and name: the label map of the first call to resolve it
    afterError,   \* per caller: its call started after some call had failed
    given,        \* the *Config passed to NewMetrics
    config,       \* m.config: the configuration after NewMetrics
    httpMetrics,  \* m.httpMetrics # nil
    ctxDone,      \* the context passed to StartGrafanaPush is cancelled
    loop,         \* position of StartGrafanaPush and of its goroutine
    ppc,          \* position inside pushToGrafana, "none" outside
    now,          \* seconds passed since time.NewTicker
    period,       \* the interval of the ticker, 0 before time.NewTicker
    tickC,        \* ticker.C, a channel of capacity 1: the ticks it holds
    snap,         \* metricFamilies: the result of m.registry.Gather()
    buf,          \* buf: the bytes.Buffer the encoder writes to
    lastErr,      \* what the last pushToGrafana returned
    lastStatus,   \* resp.StatusCode of the last response, 0 if none
    pushes,       \* number of pushToGrafana calls started
    ticksUsed,    \* number of ticks received from ticker.C
    nsent,        \* number of HTTP requests issued
    lastSent,     \* the last HTTP request issued
    pushedAfterCancel,  \* a pushToGrafana call started after the cancellation
    inflight,     \* the value of httpMetrics.RequestsInFlight
    httpVecs,     \* the four vectors of httpMetrics, by field
    rpc,          \* position of each HTTP request inside the middleware
    req,          \* each HTTP request: how it is routed, what it carries, its response
    handled,      \* per HTTP request: how often c.Next() ran the next handler
    pulled        \* the families the pull endpoint has served last

regVars == <<counters, gauges, histograms, registry, vecs, mu, pc, call,
             labelKeys, handle, outcome, issued, failed,
             firstLabels, afterError>>

pushVars == <<given, config, httpMetrics, ctxDone, loop, ppc, now, period,
              tickC, snap, buf, lastErr, lastStatus, pushes,
              ticksUsed, nsent, lastSent, pushedAfterCancel>>

httpVars == <<inflight, httpVecs, rpc, req, handled, pulled>>

vars == <<regVars, pushVars, httpVars>>

\* the variables that only record history and that no step of the code reads
history == <<issued, failed, firstLabels, afterError>>

\* ---- the registry's data ----
MapOf(kind) ==
    CASE kind = "counter" -> counters
      [] kind = "gauge" -> gauges
      [] kind = "histogram" -> histograms

\* prometheus.DefBuckets, in thousandths: .005, .01, .025, .05, .1, .25,
\* .5, 1, 2.5, 5, 10.  Histogram values are in thousandths too.
DefBuckets == <<5, 10, 25, 50, 100, 250, 500, 1000, 2500, 5000, 10000>>

\* Histogram.Observe(v): one more sample, v more in the sum, one more in
\* every bucket whose upper bound v does not exceed (counts are kept as
\* they are exposed, cumulative).
ObservedIn(old, v, buckets) ==
    [count |-> old.count + 1, sum |-> old.sum + v,
     le |-> [i \in DOMAIN old.le |-> old.le[i] + (IF v <= buckets[i] THEN 1 ELSE 0)]]

ObservedOnce(old, v) ==
    [count |-> 1, sum |-> v,
     le |-> [i \in DOMAIN old.le |-> IF v <= DefBuckets[i] THEN 1 ELSE 0]]

\* Observe on a histogram with the default buckets
Observed(old, v) == ObservedIn(old, v, DefBuckets)

\* A series starts at the zero value of its kind.
ZeroValue(kind) ==
    IF kind = "histogram"
    THEN [count |-> 0, sum |-> 0, le |-> [i \in DOMAIN DefBuckets |-> 0]]
    ELSE 0

\* prometheus.New{Counter,Gauge,Histogram}Vec(opts{Name: name}, labelKeys);
\* a histogram vector is given Buckets: prometheus.DefBuckets.
NewVec(kind, name, keys) ==
    [kind |-> kind, name |-> name, keys |-> keys, series |-> <<>>,
     buckets |-> IF kind = "histogram" THEN DefBuckets ELSE <<>>]

\* Registry.Register refuses a collector whose fully-qualified name (with
\* the same const labels) is already registered, whatever its kind.
RegisterFails(name) ==
    \E id \in registry : vecs[id].name = name

\* with the label names compared in their order: the vector's against the
\* alphabetical one of the map's
SchemaMismatchByOrder(vec, labels) ==
    vec.keys # SelectSeq(<<"k1", "k2">>, LAMBDA k : k \in LabelNames(labels))

SchemaMismatchByCount(vec, labels) == Len(vec.keys) # Cardinality(labels)

\* vec.With(labels) fails unless labels has exactly the vector's label names.
SchemaMismatch(vec, labels) ==
    \/ Len(vec.keys) # Cardinality(labels)
    \/ \E i \in 1..Len(vec.keys) : vec.keys[i] \notin LabelNames(labels)

HasSeries(vec, labels) == labels \in DOMAIN vec.series

\* ---- the HTTP metrics ----
\* prometheus.ExponentialBuckets(100, 10, 7), in bytes
SizeBuckets == <<100, 1000, 10000, 100000, 1000000, 10000000, 100000000>>

\* a histogram vector with buckets of its own
HistogramVecWith(name, keys, buckets) ==
    [NewVec("histogram", name, keys) EXCEPT !.buckets = buckets]

\* initHTTPMetrics: the four vectors of HTTPMetrics (RequestsInFlight is a
\* plain gauge, kept apart); HTTPBuckets has the values of DefBuckets.
NewHTTPMetrics ==
    [RequestsTotal |-> NewVec("counter", "http_requests_total",
                              <<"method", "path", "status">>),
     RequestDuration |-> HistogramVecWith("http_request_duration_seconds",
                              <<"method", "path", "status">>, DefBuckets),
     RequestSize |-> HistogramVecWith("http_request_size_bytes",
                              <<"method", "path">>, SizeBuckets),
     ResponseSize |-> HistogramVecWith("http_response_size_bytes",
                              <<"method", "path">>, SizeBuckets)]

\* the label map WithLabelValues(values...) addresses: the values taken in
\* the order of the vector's label names
LabelValues(vec, values) == { <<vec.keys[i], values[i]>> : i \in 1..Len(vec.keys) }

\* the series of a new histogram child with the vector's buckets
ZeroHistogram(buckets) ==
    [count |-> 0, sum |-> 0, le |-> [i \in DOMAIN buckets |-> 0]]

\* vec.WithLabelValues(values...).Inc()
IncOf(vec, values) ==
    LET l == LabelValues(vec, values)
        old == IF HasSeries(vec, l) THEN vec.series[l] ELSE 0
    IN  [vec EXCEPT !.series = (l :> old + 1) @@ vec.series]

\* vec.WithLabelValues(values...).Observe(v)
ObserveOf(vec, values, v) ==
    LET l == LabelValues(vec, values)
        old == IF HasSeries(vec, l) THEN vec.series[l] ELSE ZeroHistogram(vec.buckets)
    IN  [vec EXCEPT !.series = (l :> ObservedIn(old, v, vec.buckets)) @@ vec.series]

\* ---- configuration and construction ----
\* The fields of Config the model follows.  Durations are in seconds.
ConstLabels == {<<"env", "test">>}

\* the HTTP requests
Reqs == 1..NumReqs

NoReq == [via |-> "", path |-> "", skip |-> FALSE, size |-> 0, status |-> 0]

\* a nil *Config
NilConfig ==
    [serviceName |-> "<nil>", enableHTTP |-> FALSE, url |-> "", user |-> "",
     key |-> "", interval |-> 0, constLabels |-> {}]

\* DefaultConfig()
DefaultConfig ==
    [serviceName |-> "app", enableHTTP |-> TRUE, url |-> "", user |-> "",
     key |-> "", interval |-> 15, constLabels |-> {}]

\* The configurations callers pass: with and without a service name, with
\* HTTP metrics asked for or not, with each of the push settings set or
\* left empty, a push URL that parses ("good") or does not ("bad"), and a
\* push interval left at zero or set to 5 seconds.
Configs ==
    [serviceName : {"", "svc"}, enableHTTP : BOOLEAN, url : {"", "good", "bad"},
     user : {"", "usr"}, key : {"", "key"}, interval : {0, 5},
     constLabels : {ConstLabels}]

\* the configuration of a service that pushes every 5 seconds
ServiceConfig ==
    [serviceName |-> "svc", enableHTTP |-> FALSE, url |-> "good", user |-> "usr",
     key |-> "key", interval |-> 5, constLabels |-> ConstLabels]

\* NewMetrics, the configuration it keeps: the defaults for a nil config,
\* else the config with its unset fields defaulted.
EnableDefault(c) == c.enableHTTP \/ c.serviceName # ""

NewMetricsConfig(c) ==
    IF c = NilConfig THEN DefaultConfig
    ELSE [c EXCEPT !.interval = IF c.interval = 0 THEN 15 ELSE c.interval,
                   !.enableHTTP = EnableDefault(c)]

\* bytes.Buffer: the lines written to it; a new buffer is empty
EmptyBuffer == {}

NoRequest == [push |-> 0, body |-> EmptyBuffer, families |-> {}]

\* NewMetrics(c): empty maps, a new registry, the HTTP metrics when enabled.
\* StartGrafanaPush has not been called.
Constructed0(c) ==
    /\ given = c
    /\ config = NewMetricsConfig(c)
    /\ httpMetrics = NewMetricsConfig(c).enableHTTP
    /\ ctxDone = FALSE
    /\ loop = "init"
    /\ ppc = "none"
    /\ now = 0
    /\ period = 0
    /\ tickC = 0
    /\ snap = {}
    /\ buf = EmptyBuffer
    /\ lastErr = "none"
    /\ lastStatus = 0
    /\ pushes = 0
    /\ ticksUsed = 0
    /\ nsent = 0
    /\ lastSent = NoRequest
    /\ pushedAfterCancel = FALSE
    /\ inflight = 0
    /\ httpVecs = NewHTTPMetrics
    /\ rpc = [r \in Reqs |-> "idle"]
    /\ req = [r \in Reqs |-> NoReq]
    /\ handled = [r \in Reqs |-> 0]
    /\ pulled = {}

RegInit ==
    /\ counters = [n \in Names \cup WSNames |-> None]
    /\ gauges = [n \in Names \cup WSNames |-> None]
    /\ histograms = [n \in Names \cup WSNames |-> None]
    /\ registry = {}
    /\ vecs = <<>>
    /\ mu = None
    /\ pc = [p \in Procs |-> "idle"]
    /\ call = [p \in Procs |-> NoCall]
    /\ labelKeys = [p \in Procs |-> <<>>]
    /\ handle = [p \in Procs |-> None]
    /\ outcome = [p \in Procs |-> NoOutcome]
    /\ issued = [s \in Names \X LabelMaps |-> 0]
    /\ failed = {}
    /\ firstLabels = [kn \in Kinds \X (Names \cup WSNames) |-> Unbound]
    /\ afterError = [p \in Procs |-> FALSE]

Init ==
    /\ RegInit
    /\ Constructed0(ServiceConfig)

\* A caller invokes one of the verbs: the verb evaluates
\* getLabelKeys(labels) and enters getOrCreate<Kind>.
InvokeOf(p, cs) ==
    /\ pc[p] = "idle"
    /\ \E c \in cs : \E keys \in getLabelKeys(c.labels) :
        /\ call' = [call EXCEPT ![p] = c]
        /\ labelKeys' = [labelKeys EXCEPT ![p] = keys]
        /\ issued' = IF c.verb = "IncrementCounterBy" /\ <<c.name, c.labels>> \in DOMAIN issued
                     THEN [issued EXCEPT ![<<c.name, c.labels>>] = @ + c.value]
                     ELSE issued
    /\ pc' = [pc EXCEPT ![p] = "lock"]
    /\ handle' = [handle EXCEPT ![p] = None]
    /\ outcome' = [outcome EXCEPT ![p] = Running]
    /\ afterError' = [afterError EXCEPT ![p] = (failed # {})]
    /\ UNCHANGED <<counters, gauges, histograms, registry, vecs, mu, failed,
                   firstLabels>>
    /\ UNCHANGED pushVars
    /\ UNCHANGED httpVars

Invoke(p) == InvokeOf(p, Calls)

\* m.mu.Lock() succeeds only while no goroutine holds the mutex.
CanLockUnguarded(p) == TRUE

CanLock(p) == mu = None

\* if v, exists := m.<kind>s[name]; exists { return v }
Exists(kind, name) == MapOf(kind)[name] # None

\* The end of a call: the caller has its result; a call that panicked is
\* recorded.
Finish(p, result) ==
    /\ pc' = [pc EXCEPT ![p] = "done"]
    /\ outcome' = [outcome EXCEPT ![p] = result]
    /\ failed' = IF result = Returned THEN failed
                 ELSE failed \cup {<<KindOf(call[p].verb), call[p].name, call[p].labels>>}

\* getOrCreate<Kind>, up to the lookup: m.mu.Lock(); defer m.mu.Unlock();
\* then the lookup in the map of the kind.  When the name exists the vector
\* is returned and the deferred Unlock releases the mutex in the same step;
\* otherwise the goroutine goes on to create the vector, holding the mutex.
Resolve(p) ==
    /\ pc[p] = "lock"
    /\ CanLock(p)
    /\ LET kind == KindOf(call[p].verb)
           name == call[p].name
       IN  /\ firstLabels' = IF firstLabels[<<kind, name>>] = Unbound
                             THEN [firstLabels EXCEPT ![<<kind, name>>] = call[p].labels]
                             ELSE firstLabels
           /\ IF Exists(kind, name)
              THEN /\ handle' = [handle EXCEPT ![p] = MapOf(kind)[name]]
                   /\ pc' = [pc EXCEPT ![p] = "with"]
                   /\ mu' = None
              ELSE /\ pc' = [pc EXCEPT ![p] = "create"]
                   /\ mu' = p
                   /\ UNCHANGED handle
    /\ UNCHANGED <<counters, gauges, histograms, registry, vecs, call,
                   labelKeys, outcome, issued, failed, afterError>>
    /\ UNCHANGED pushVars
    /\ UNCHANGED httpVars

\* m.<kind>s[name] = v: the store into the map of the vector's own kind.
StoredNowhere(map, mapKind, kind, name, id) == map

Stored(map, mapKind, kind, name, id) ==
    IF kind = mapKind THEN [map EXCEPT ![name] = id] ELSE map

\* The rest of getOrCreate<Kind>: New<Kind>Vec, m.registry.MustRegister(v),
\* m.<kind>s[name] = v, return v.  MustRegister panics when Register
\* fails: the map is then not written and the panic leaves getOrCreate and
\* the verb.  The deferred Unlock runs on return and on panic alike.
Create(p) ==
    /\ pc[p] = "create"
    /\ LET kind == KindOf(call[p].verb)
           name == call[p].name
           id == Len(vecs) + 1
       IN  /\ vecs' = Append(vecs, NewVec(kind, name, labelKeys[p]))
           /\ IF RegisterFails(name)
              THEN /\ Finish(p, Panicked("AlreadyRegistered"))
                   /\ UNCHANGED <<counters, gauges, histograms, registry, handle>>
              ELSE /\ registry' = registry \cup {id}
                   /\ counters' = Stored(counters, "counter", kind, name, id)
                   /\ gauges' = Stored(gauges, "gauge", kind, name, id)
                   /\ histograms' = Stored(histograms, "histogram", kind, name, id)
                   /\ handle' = [handle EXCEPT ![p] = id]
                   /\ pc' = [pc EXCEPT ![p] = "with"]
                   /\ UNCHANGED <<outcome, failed>>
    /\ mu' = None
    /\ UNCHANGED <<call, labelKeys, issued, firstLabels, afterError>>
    /\ UNCHANGED pushVars
    /\ UNCHANGED httpVars

\* vec.With(prometheus.Labels(labels)): panics on a label set that does
\* not match the vector's label names, else returns the series of these
\* label values, creating it at the zero value when it is new.
WithSeriesAlone(vec, labels) ==
    IF HasSeries(vec, labels) THEN vec.series
    ELSE [l \in DOMAIN vec.series \cup {labels} |-> ZeroValue(vec.kind)]

WithSeries(vec, labels) ==
    IF HasSeries(vec, labels) THEN vec.series
    ELSE (labels :> ZeroValue(vec.kind)) @@ vec.series

With(p) ==
    /\ pc[p] = "with"
    /\ LET vec == vecs[handle[p]]
       IN  IF SchemaMismatch(vec, call[p].labels)
           THEN /\ Finish(p, Panicked("SchemaMismatch"))
                /\ UNCHANGED vecs
           ELSE /\ vecs' = [vecs EXCEPT ![handle[p]].series = WithSeries(vec, call[p].labels)]
                /\ pc' = [pc EXCEPT ![p] = "apply"]
                /\ UNCHANGED <<outcome, failed>>
    /\ UNCHANGED <<counters, gauges, histograms, registry, mu, call,
                   labelKeys, handle, issued, firstLabels, afterError>>
    /\ UNCHANGED pushVars
    /\ UNCHANGED httpVars

\* Counter.Add panics on a negative value ("counter cannot decrease in value").
AddPanicsNever(v) == FALSE

AddPanics(v) == v < 0

\* The new value of a series under each verb: Add(value), Set(value),
\* Inc(), Dec(), Observe(value); each is atomic on the series.
AppliedOverwriting(verb, old, v) ==
    CASE verb = "IncrementCounterBy" -> v
      [] verb = "SetGauge" -> v
      [] verb = "IncrementGauge" -> old + 1
      [] verb = "DecrementGauge" -> old - 1
      [] verb = "RecordHistogram" -> Observed(old, v)

AppliedClamped(verb, old, v) ==
    CASE verb = "IncrementCounterBy" -> old + v
      [] verb = "SetGauge" -> v
      [] verb = "IncrementGauge" -> old + 1
      [] verb = "DecrementGauge" -> IF old > 0 THEN old - 1 ELSE 0
      [] verb = "RecordHistogram" -> Observed(old, v)

Applied(verb, old, v) ==
    CASE verb = "IncrementCounterBy" -> old + v
      [] verb = "SetGauge" -> v
      [] verb = "IncrementGauge" -> old + 1
      [] verb = "DecrementGauge" -> old - 1
      [] verb = "RecordHistogram" -> Observed(old, v)

Apply(p) ==
    /\ pc[p] = "apply"
    /\ LET c == call[p]
           old == vecs[handle[p]].series[c.labels]
       IN  IF c.verb = "IncrementCounterBy" /\ AddPanics(c.value)
           THEN /\ Finish(p, Panicked("InvalidArgument"))
                /\ UNCHANGED vecs
           ELSE /\ vecs' = [vecs EXCEPT ![handle[p]].series[c.labels] =
                                Applied(c.verb, old, c.value)]
                /\ Finish(p, Returned)
    /\ UNCHANGED <<counters, gauges, histograms, registry, mu, call,
                   labelKeys, handle, issued, firstLabels, afterError>>
    /\ UNCHANGED pushVars
    /\ UNCHANGED httpVars

Next ==
    \E p \in Procs :
        \/ Invoke(p)
        \/ Resolve(p)
        \/ Create(p)
        \/ With(p)
        \/ Apply(p)

Spec == Init /\ [][Next]_vars

TypeOK ==
    /\ mu \in Procs \cup {None}
    /\ \A p \in Procs : pc[p] \in {"idle", "lock", "create", "with", "apply", "done"}
    /\ registry \subseteq 1..Len(vecs)

\* ---- the registry's snapshot and its text encoding ----
Namespace == "app"

\* prometheus.BuildFQName(namespace, subsystem, name), the subsystem empty
FQName(name) == <<Namespace, name>>

\* The labels of an exposed series: its own label values and the
\* ConstLabels given to the vector.
SeriesLabelsBare(labels, constLabels) == labels

SeriesLabels(labels, constLabels) == labels \cup constLabels

\* The metric family a vector is gathered into.
FamilyOfZeroed(vec, constLabels) ==
    [name |-> FQName(vec.name), kind |-> vec.kind,
     metrics |-> { [labels |-> SeriesLabels(l, constLabels), value |-> ZeroValue(vec.kind)] :
                   l \in DOMAIN vec.series }]

FamilyOf(vec, constLabels) ==
    [name |-> FQName(vec.name), kind |-> vec.kind,
     metrics |-> { [labels |-> SeriesLabels(l, constLabels), value |-> vec.series[l]] :
                   l \in DOMAIN vec.series }]

\* httpMetrics.RequestsInFlight: a plain gauge, exposed from registration
\* on.
InFlightFamily(constLabels) ==
    [name |-> FQName("http_requests_in_flight"), kind |-> "gauge",
     metrics |-> { [labels |-> SeriesLabels({}, constLabels), value |-> inflight] }]

\* the families of the four vectors of httpMetrics that have a series
HTTPFamilies(constLabels) ==
    { FamilyOf(httpVecs[f], constLabels) :
        f \in { g \in DOMAIN httpVecs : DOMAIN httpVecs[g].series # {} } }

\* registry.Gather(): one family per registered collector that has at
\* least one series.
Gather(vs, reg, http, constLabels) ==
    { FamilyOf(vs[id], constLabels) : id \in { i \in reg : DOMAIN vs[i].series # {} } }
    \cup (IF http THEN {InFlightFamily(constLabels)} \cup HTTPFamilies(constLabels)
          ELSE {})

\* what m.registry.Gather() returns in the current state
GatherNow == Gather(vecs, registry, httpMetrics, config.constLabels)

Line(name, suffix, labels, value) ==
    [name |-> <<name[1], name[2], suffix>>, labels |-> labels, value |-> value]

\* encoder.Encode(mf) in the text format: a TYPE line, then the samples;
\* a histogram series is written as its buckets, its sum and its count.
EncodeFamily(f) ==
    {Line(f.name, "# TYPE", {<<"type", f.kind>>}, 0)}
    \cup (IF f.kind = "histogram"
          THEN UNION { {Line(f.name, "_sum", m.labels, m.value.sum),
                        Line(f.name, "_count", m.labels, m.value.count)}
                       \cup { Line(f.name, "_bucket", m.labels \cup {<<"le", i>>}, m.value.le[i]) :
                              i \in DOMAIN m.value.le } : m \in f.metrics }
          ELSE { Line(f.name, "", m.labels, m.value) : m \in f.metrics })

\* the loop over metricFamilies writing into buf
Encode(families) == UNION { EncodeFamily(f) : f \in families }

\* ---- the push loop ----
StatusOK == 200

StatusNoContent == 204

\* the status codes the endpoint answers with
Statuses == {StatusOK, 201, StatusNoContent, 500}

\* if resp.StatusCode != http.StatusOK && resp.StatusCode != http.StatusNoContent
\*     { return error }
StatusIsSuccessOnlyOK(status) == status = StatusOK

StatusIsSuccess(status) == status = StatusOK \/ status = StatusNoContent

DefaultPushInterval == 15

\* interval := m.config.PushInterval; if interval == 0 { interval = 15s }
PushIntervalFixed(c) == DefaultPushInterval

PushInterval(c) == IF c.interval = 0 THEN DefaultPushInterval ELSE c.interval

\* StartGrafanaPush returns at once, starting nothing, on this condition.
PushDisabled(c) == c.url = "" \/ c.key = ""

\* http.NewRequest fails on a URL it cannot parse.
NewRequestFails(c) == c.url = "bad"

\* StartGrafanaPush(ctx): either returns at once or starts the goroutine.
\* The context may be cancelled already.
Start ==
    /\ loop = "init"
    /\ loop' = IF PushDisabled(config) THEN "off" ELSE "spawned"
    /\ UNCHANGED <<given, config, httpMetrics, ctxDone, ppc, now, period, tickC,
                   snap, buf, lastErr, lastStatus, pushes, ticksUsed, nsent,
                   lastSent, pushedAfterCancel>>
    /\ UNCHANGED regVars
    /\ UNCHANGED httpVars

\* A call of pushToGrafana begins.
BeginPush ==
    /\ loop' = "push"
    /\ ppc' = "gather"
    /\ pushes' = pushes + 1
    /\ pushedAfterCancel' = (pushedAfterCancel \/ ctxDone)

\* The goroutine starts: time.NewTicker(interval), defer ticker.Stop(), and
\* the first pushToGrafana, called before the loop looks at the context.
Begin ==
    /\ loop = "spawned"
    /\ period' = PushInterval(config)
    /\ tickC' = 0
    /\ BeginPush
    /\ UNCHANGED <<given, config, httpMetrics, ctxDone, now, snap, buf, lastErr,
                   lastStatus, ticksUsed, nsent, lastSent>>
    /\ UNCHANGED regVars
    /\ UNCHANGED httpVars

\* Where the loop goes when pushToGrafana has returned err: the error is
\* printed and the loop goes back to its select.
AfterPushStopsOnError(err) == IF err = "nil" THEN "select" ELSE "exited"

AfterPush(err) == "select"

\* Where pushToGrafana stands once it has returned err: outside, with no
\* statement of it run again.
AfterReturnRetrying(err) == IF err \in {"transport", "status"} THEN "send" ELSE "none"

AfterReturn(err) == "none"

\* pushToGrafana returns err to the loop.
EndPushContinuing(err) ==
    /\ lastErr' = err
    /\ ppc' = IF err = "nil" THEN "none" ELSE "request"
    /\ loop' = IF err = "nil" THEN "select" ELSE loop

EndPush(err) ==
    /\ lastErr' = err
    /\ ppc' = AfterReturn(err)
    /\ loop' = AfterPush(err)

\* The vectors after registry.Gather() has collected them: Gather reads
\* the series and leaves them as they are.
CollectedAndReset(vs) == [i \in DOMAIN vs |-> [vs[i] EXCEPT !.series = <<>>]]

Collected(vs) == vs

\* metricFamilies, err := m.registry.Gather(); var buf bytes.Buffer
PushGather ==
    /\ ppc = "gather"
    /\ \/ /\ snap' = GatherNow
          /\ buf' = EmptyBuffer
          /\ ppc' = "encode"
          /\ UNCHANGED <<loop, lastErr>>
       \/ /\ EndPush("gather")
          /\ UNCHANGED <<snap, buf>>
    /\ UNCHANGED <<given, config, httpMetrics, ctxDone, now, period, tickC,
                   lastStatus, pushes, ticksUsed, nsent, lastSent,
                   pushedAfterCancel>>
    /\ vecs' = Collected(vecs)
    /\ UNCHANGED <<counters, gauges, histograms, registry, mu, pc, call,
                   labelKeys, handle, outcome, issued, failed, firstLabels,
                   afterError>>
    /\ UNCHANGED httpVars

\* What buf holds after the encoder has written the families into it.
Written(old, families) == Encode(families)

\* for _, mf := range metricFamilies { encoder.Encode(mf) }
PushEncode ==
    /\ ppc = "encode"
    /\ \/ /\ buf' = Written(buf, snap)
          /\ ppc' = "request"
          /\ UNCHANGED <<loop, lastErr>>
       \/ /\ snap # {}
          /\ EndPush("encode")
          /\ UNCHANGED buf
    /\ UNCHANGED <<given, config, httpMetrics, ctxDone, now, period, tickC, snap,
                   lastStatus, pushes, ticksUsed, nsent, lastSent,
                   pushedAfterCancel>>
    /\ UNCHANGED regVars
    /\ UNCHANGED httpVars

\* http.NewRequest("POST", url, &buf), the headers and SetBasicAuth
PushRequest ==
    /\ ppc = "request"
    /\ IF NewRequestFails(config)
       THEN EndPush("request")
       ELSE /\ ppc' = "send"
            /\ UNCHANGED <<loop, lastErr>>
    /\ UNCHANGED <<given, config, httpMetrics, ctxDone, now, period, tickC, snap,
                   buf, lastStatus, pushes, ticksUsed, nsent, lastSent,
                   pushedAfterCancel>>
    /\ UNCHANGED regVars
    /\ UNCHANGED httpVars

\* client.Do(req): the request leaves with the buffer as its body.
PushSend ==
    /\ ppc = "send"
    /\ nsent' = nsent + 1
    /\ lastSent' = [push |-> pushes, body |-> buf, families |-> snap]
    /\ ppc' = "await"
    /\ UNCHANGED <<given, config, httpMetrics, ctxDone, loop, now, period, tickC,
                   snap, buf, lastErr, lastStatus, pushes, ticksUsed,
                   pushedAfterCancel>>
    /\ UNCHANGED regVars
    /\ UNCHANGED httpVars

\* client.Do returns: a transport error (the 10 second client timeout
\* included) or a response, whose status decides the result.
PushRespond ==
    /\ ppc = "await"
    /\ \/ /\ EndPush("transport")
          /\ UNCHANGED lastStatus
       \/ \E status \in Statuses :
            /\ lastStatus' = status
            /\ EndPush(IF StatusIsSuccess(status) THEN "nil" ELSE "status")
    /\ UNCHANGED <<given, config, httpMetrics, ctxDone, now, period, tickC, snap,
                   buf, pushes, ticksUsed, nsent, lastSent, pushedAfterCancel>>
    /\ UNCHANGED regVars
    /\ UNCHANGED httpVars

\* case <-ticker.C: a tick is received and pushToGrafana is called.  The
\* select takes this case whenever a tick is ready, cancelled or not.
OnTick ==
    /\ loop = "select"
    /\ tickC = 1
    /\ tickC' = 0
    /\ ticksUsed' = ticksUsed + 1
    /\ BeginPush
    /\ UNCHANGED <<given, config, httpMetrics, ctxDone, now, period, snap, buf,
                   lastErr, lastStatus, nsent, lastSent>>
    /\ UNCHANGED regVars
    /\ UNCHANGED httpVars

\* The select can take case <-ctx.Done() only at the select and only
\* once the context is cancelled.
CanExitNever == FALSE

CanExit == loop = "select" /\ ctxDone

\* case <-ctx.Done(): return; the deferred ticker.Stop() runs.
ExitOnCancel ==
    /\ CanExit
    /\ loop' = "exited"
    /\ period' = 0
    /\ UNCHANGED <<given, config, httpMetrics, ctxDone, ppc, now, tickC, snap,
                   buf, lastErr, lastStatus, pushes, ticksUsed, nsent, lastSent,
                   pushedAfterCancel>>
    /\ UNCHANGED regVars
    /\ UNCHANGED httpVars

\* The caller cancels the context, at any time.
Cancel ==
    /\ ~ctxDone
    /\ ctxDone' = TRUE
    /\ UNCHANGED <<given, config, httpMetrics, loop, ppc, now, period, tickC,
                   snap, buf, lastErr, lastStatus, pushes, ticksUsed, nsent,
                   lastSent, pushedAfterCancel>>
    /\ UNCHANGED regVars
    /\ UNCHANGED httpVars

\* the ticker is due at every multiple of its period
TickDue(t) == period > 0 /\ t % period = 0

\* time.NewTicker makes ticker.C with room for one tick: a tick that
\* finds the channel full is dropped, it is not queued behind the other.
DeliveredQueued(pending) == pending + 1

Delivered(pending) == 1

\* One second passes, counted from time.NewTicker.  A running ticker
\* that is due puts a tick into ticker.C; the tick is dropped when the
\* channel is full.
Tick ==
    /\ loop \in {"push", "select", "exited"}
    /\ now < MaxTime
    /\ now' = now + 1
    /\ tickC' = IF TickDue(now + 1) THEN Delivered(tickC) ELSE tickC
    /\ UNCHANGED <<given, config, httpMetrics, ctxDone, loop, ppc, period, snap,
                   buf, lastErr, lastStatus, pushes, ticksUsed, nsent, lastSent,
                   pushedAfterCancel>>
    /\ UNCHANGED regVars
    /\ UNCHANGED httpVars

\* the step of the push loop's goroutine
LoopStep ==
    \/ Begin
    \/ PushGather
    \/ PushEncode
    \/ PushRequest
    \/ PushSend
    \/ PushRespond
    \/ OnTick
    \/ ExitOnCancel

\* The service whose pushes are followed sets one gauge, from one goroutine.
ServiceCalls == { c \in Calls : c.verb = "SetGauge" /\ c.name = "b" }

Service == 1

Instrument ==
    \/ InvokeOf(Service, ServiceCalls)
    \/ Resolve(Service)
    \/ Create(Service)
    \/ With(Service)
    \/ Apply(Service)

\* A Metrics built from any configuration, its push loop, the clock and
\* the service's instrumentation.
PushInit ==
    /\ RegInit
    /\ \E c \in Configs \cup {NilConfig} : Constructed0(c)

PushNext ==
    \/ Start
    \/ LoopStep
    \/ Cancel
    \/ Tick
    \/ Instrument

PushSpec == PushInit /\ [][PushNext]_vars

\* One service with its push enabled, with a push URL that parses or
\* not, or with no push URL; the push loop, the cancellation and the clock.
LiveConfigs == { [ServiceConfig EXCEPT !.url = u] : u \in {"", "good", "bad"} }

LiveInit ==
    /\ RegInit
    /\ \E c \in LiveConfigs : Constructed0(c)

LiveNext ==
    \/ Start
    \/ LoopStep
    \/ Cancel
    \/ Tick

\* the steps of the goroutine outside its select
Progress ==
    \/ Begin
    \/ PushGather
    \/ PushEncode
    \/ PushRequest
    \/ PushSend
    \/ PushRespond

\* The goroutine is scheduled: a step it can take is eventually taken
\* (client.Do returns within the client's 10 second timeout).  A select
\* with several ready cases picks one at random, so the case of ctx.Done()
\* is taken eventually when it is ready again and again.
LivePushSpec ==
    /\ LiveInit
    /\ [][LiveNext]_vars
    /\ WF_vars(Progress)
    /\ SF_vars(ExitOnCancel)

\* Goroutines that record durations of 0.1, 0.2 and 5 seconds in one
\* histogram, without labels or with one label.
HistCalls ==
    [verb : {"RecordHistogram"}, name : {"a"}, value : {100, 200, 5000},
     labels : {{}, {<<"k1", "x">>}}]

HistNext ==
    \E p \in Procs :
        \/ InvokeOf(p, HistCalls)
        \/ Resolve(p)
        \/ Create(p)
        \/ With(p)
        \/ Apply(p)

HistSpec == Init /\ [][HistNext]_vars

\* ---- the HTTP middleware ----
\* The requests that reach the middleware: through Middleware,
\* GinMiddleware or MiddlewareWithSkipper (skip is what the skipper answers
\* for the request), for the pull endpoint's path or another route, with
\* a body of ContentLength size or none.
Requests ==
    [via : {"Middleware", "GinMiddleware"}, path : {"/metrics", "/api"},
     skip : {FALSE}, size : {0, 512}, status : {0}]
    \cup [via : {"MiddlewareWithSkipper"}, path : {"/metrics", "/api"},
          skip : BOOLEAN, size : {0, 512}, status : {0}]

Method == "GET"

\* the status codes the next handler answers with
HandlerStatuses == {200, 204}

\* c.Writer.Size(): the bytes written, -1 when no body was written
WriterSize(status) == IF status = 204 THEN -1 ELSE 1024

\* time.Since(start).Seconds(), in thousandths
Duration == 3

\* strconv.Itoa(status)
Itoa(status) == IF status = 200 THEN "200" ELSE "204"

\* http.StatusText(status)
StatusText(status) == IF status = 200 THEN "OK" ELSE "No Content"

\* the value of the status label: Middleware writes the number,
\* GinMiddleware the status text
StatusLabel(q) ==
    IF q.via = "GinMiddleware" THEN StatusText(q.status) ELSE Itoa(q.status)

\* The middleware passes the request on without measuring it:
\* GinMiddleware for the path /metrics, MiddlewareWithSkipper when the
\* skipper returns true; Middleware never.
SkippedNever(q) == FALSE

Skipped(q) ==
    \/ q.via = "GinMiddleware" /\ q.path = "/metrics"
    \/ q.via = "MiddlewareWithSkipper" /\ q.skip

\* The middleware is the no-op one: m.httpMetrics == nil for Middleware
\* (and for the Middleware inside MiddlewareWithSkipper),
\* !m.config.EnableHTTPMetrics for GinMiddleware.
NoOp(q) ==
    IF q.via = "GinMiddleware" THEN ~config.enableHTTP ELSE ~httpMetrics

\* the request runs the measuring body of the middleware
Measured(q) == ~NoOp(q) /\ ~Skipped(q)

\* The request enters the middleware: a measured request increments the
\* in-flight gauge (the decrement is deferred) and, when it has a body,
\* records its size.
Enter(r) ==
    /\ rpc[r] = "idle"
    /\ \E q \in Requests :
        /\ req' = [req EXCEPT ![r] = q]
        /\ IF Measured(q)
           THEN /\ inflight' = inflight + 1
                /\ httpVecs' = IF q.size > 0
                               THEN [httpVecs EXCEPT !.RequestSize =
                                        ObserveOf(@, <<Method, q.path>>, q.size)]
                               ELSE httpVecs
           ELSE UNCHANGED <<inflight, httpVecs>>
    /\ rpc' = [rpc EXCEPT ![r] = "next"]
    /\ UNCHANGED <<handled, pulled>>
    /\ UNCHANGED <<regVars, pushVars>>

\* the in-flight gauge after the deferred RequestsInFlight.Dec() has run
DecrementedNot(n) == n

Decremented(n) == n - 1

\* c.Next(): the next handler runs and answers with a status, or panics.
\* A panic unwinds the middleware: only the deferred Dec of a measured
\* request runs.
Handle(r) ==
    /\ rpc[r] = "next"
    /\ handled' = [handled EXCEPT ![r] = @ + 1]
    /\ \/ /\ rpc' = [rpc EXCEPT ![r] = "panicked"]
          /\ inflight' = IF Measured(req[r]) THEN Decremented(inflight) ELSE inflight
          /\ UNCHANGED req
       \/ \E status \in HandlerStatuses :
            /\ req' = [req EXCEPT ![r].status = status]
            /\ rpc' = [rpc EXCEPT ![r] = IF Measured(req[r]) THEN "record" ELSE "left"]
            /\ UNCHANGED inflight
    /\ UNCHANGED <<httpVecs, pulled>>
    /\ UNCHANGED <<regVars, pushVars>>

\* The response size is recorded always by Middleware, only when it is
\* positive by GinMiddleware.
RecordsResponseSize(q) == q.via # "GinMiddleware" \/ WriterSize(q.status) > 0

\* The rest of a measured request: the request count, the duration and the
\* response size are recorded, the middleware returns and the deferred Dec
\* runs.
Record(r) ==
    /\ rpc[r] = "record"
    /\ LET q == req[r]
           labels == <<Method, q.path, StatusLabel(q)>>
       IN  httpVecs' =
             [httpVecs EXCEPT
                !.RequestsTotal = IncOf(@, labels),
                !.RequestDuration = ObserveOf(@, labels, Duration),
                !.ResponseSize = IF RecordsResponseSize(q)
                                 THEN ObserveOf(@, <<Method, q.path>>, WriterSize(q.status))
                                 ELSE @]
    /\ inflight' = Decremented(inflight)
    /\ rpc' = [rpc EXCEPT ![r] = "left"]
    /\ UNCHANGED <<req, handled, pulled>>
    /\ UNCHANGED <<regVars, pushVars>>

\* A Metrics with the HTTP metrics enabled or not, and the requests.
HttpConfigs == { ServiceConfig, [ServiceConfig EXCEPT !.serviceName = ""] }

HttpInit ==
    /\ RegInit
    /\ \E c \in HttpConfigs : Constructed0(c)

HttpNext ==
    \E r \in Reqs :
        \/ Enter(r)
        \/ Handle(r)
        \/ Record(r)

HttpSpec == HttpInit /\ [][HttpNext]_vars

\* Goroutines that set, increment and decrement one gauge series.
GaugeCalls ==
    { c \in Calls : KindOf(c.verb) = "gauge" /\ c.name = "a" /\ c.labels = {} }

GaugeNext ==
    \E p \in Procs :
        \/ InvokeOf(p, GaugeCalls)
        \/ Resolve(p)
        \/ Create(p)
        \/ With(p)
        \/ Apply(p)

GaugeSpec == Init /\ [][GaugeNext]_vars

\* Goroutines that increment one counter with label maps of two keys; Go
\* enumerates the keys of a map in any order.
OrderLabelMaps ==
    { {<<"k1", "x">>, <<"k2", "y">>}, {<<"k1", "y">>, <<"k2", "x">>} }

OrderCalls ==
    [verb : {"IncrementCounterBy"}, name : {"a"}, value : {1}, labels : OrderLabelMaps]

OrderNext ==
    \E p \in Procs :
        \/ InvokeOf(p, OrderCalls)
        \/ Resolve(p)
        \/ Create(p)
        \/ With(p)
        \/ Apply(p)

OrderSpec == Init /\ [][OrderNext]_vars

\* Goroutines that work on two series of one counter, on one gauge and
\* on a histogram (which takes the counter's name, so that one of the two
\* is registered and the other is refused).
LocalCalls == OrderCalls \cup ServiceCalls \cup HistCalls

LocalNext ==
    \E p \in Procs :
        \/ InvokeOf(p, LocalCalls)
        \/ Resolve(p)
        \/ Create(p)
        \/ With(p)
        \/ Apply(p)

LocalSpec == Init /\ [][LocalNext]_vars

\* ws.ConnectionOpened(): IncrementGauge on the active connections and,
\* when that call has returned, IncrementCounter on the total.
ConnectionOpened(p) ==
    \/ InvokeOf(p, {OpenedActive})
    \/ /\ pc[p] = "done"
       /\ call[p] = OpenedActive
       /\ outcome[p] = Returned
       /\ call' = [call EXCEPT ![p] = OpenedTotal]
       /\ labelKeys' = [labelKeys EXCEPT ![p] = <<>>]
       /\ pc' = [pc EXCEPT ![p] = "lock"]
       /\ handle' = [handle EXCEPT ![p] = None]
       /\ outcome' = [outcome EXCEPT ![p] = Running]
       /\ afterError' = [afterError EXCEPT ![p] = (failed # {})]
       /\ UNCHANGED <<counters, gauges, histograms, registry, vecs, mu, issued,
                      failed, firstLabels>>
       /\ UNCHANGED pushVars
       /\ UNCHANGED httpVars

\* ws.ConnectionClosed(): DecrementGauge on the active connections.
ConnectionClosed(p) == InvokeOf(p, {ClosedActive})

\* Goroutines that each report one connection as opened or as closed, in
\* any order and interleaving.
WSNext ==
    \E p \in Procs :
        \/ ConnectionOpened(p)
        \/ ConnectionClosed(p)
        \/ Resolve(p)
        \/ Create(p)
        \/ With(p)
        \/ Apply(p)

WSSpec == Init /\ [][WSNext]_vars

\* The pull endpoint: the handler promhttp.HandlerFor(m.registry) gathers
\* the registry and serves the families.
Pull ==
    /\ pulled' = GatherNow
    /\ UNCHANGED <<inflight, httpVecs, rpc, req, handled>>
    /\ UNCHANGED <<regVars, pushVars>>

\* Goroutines that add to one counter series, by negative deltas too,
\* while the pull endpoint is scraped.
SnapCalls == { c \in Calls : c.verb = "IncrementCounterBy" /\ c.name = "b" }

SnapNext ==
    \/ Pull
    \/ \E p \in Procs :
        \/ InvokeOf(p, SnapCalls)
        \/ Resolve(p)
        \/ Create(p)
        \/ With(p)
        \/ Apply(p)

SnapSpec == Init /\ [][SnapNext]_vars

\* ---- definitions shared by the properties ----
VecIds == 1..Len(vecs)

InFlight(p) == pc[p] \notin {"idle", "done"}

Finished(p) == pc[p] = "done"

CallKind(p) == KindOf(call[p].verb)

\* the value of the counter series (name, labels); 0 while it does not exist
CounterValue(name, labels) ==
    IF counters[name] # None /\ labels \in DOMAIN vecs[counters[name]].series
    THEN vecs[counters[name]].series[labels]
    ELSE 0

\* the key set of a vector's label schema, and whether a label map has
\* another key set than the vector (membership, whatever the order)
KeySet(vec) == Range(vec.keys)

KeySetDiffers(vec, labels) == KeySet(vec) # LabelNames(labels)

\* the vectors of one kind and name constructed so far, registered or not
Constructed(kind, name) ==
    { id \in VecIds : vecs[id].kind = kind /\ vecs[id].name = name }

RegisteredAs(kind, name) == Constructed(kind, name) \cap registry

\* the name is registered by a vector of another kind
TakenByOtherKind(kind, name) ==
    \E id \in registry : vecs[id].name = name /\ vecs[id].kind # kind

\* C1: when no counter call on a series is in flight and none of the calls
\* on it was unwound by a panic, the value of the series is the sum of the
\* deltas of all the calls started on it (the number of IncrementCounter
\* calls): no increment is lost, whatever the interleaving.
C1_NoLostIncrement ==
    \A name \in Names : \A labels \in LabelMaps :
        ( /\ ~ \E p \in Procs : /\ InFlight(p)
                                /\ CallKind(p) = "counter"
                                /\ call[p].name = name
                                /\ call[p].labels = labels
          /\ <<"counter", name, labels>> \notin failed )
        => CounterValue(name, labels) = issued[<<name, labels>>]

\* two callers have each completed IncrementCounter on the same series
C1_Witness ==
    /\ \A p \in Procs : /\ Finished(p)
                        /\ outcome[p] = Returned
                        /\ call[p].verb = "IncrementCounterBy"
                        /\ call[p].value = 1
    /\ \A p, q \in Procs : call[p] = call[q]
    /\ \E name \in Names : \E labels \in LabelMaps :
           CounterValue(name, labels) = NumCalls

\* C2: an entry of a kind's map, once stored, is never replaced or removed;
\* a vector keeps its identity, and its series are never dropped; every
\* getOrCreate that returns hands out the vector stored under the name.
C2_ResolveStable ==
    [][ /\ \A kind \in Kinds : \A name \in Names :
              MapOf(kind)[name] # None => MapOf(kind)'[name] = MapOf(kind)[name]
        /\ \A id \in VecIds :
              /\ id \in 1..Len(vecs')
              /\ vecs'[id].kind = vecs[id].kind
              /\ vecs'[id].name = vecs[id].name
              /\ DOMAIN vecs[id].series \subseteq DOMAIN vecs'[id].series
        /\ \A p \in Procs :
              pc'[p] \in {"with", "apply"} =>
                  /\ handle'[p] # None
                  /\ handle'[p] = MapOf(CallKind(p))'[call'[p].name]
                  /\ vecs'[handle'[p]].kind = CallKind(p)'
                  /\ vecs'[handle'[p]].name = call'[p].name
      ]_vars

\* a second operation on a name resolved the vector the first had created,
\* and the value accumulated
C2_Witness ==
    \E p \in Procs : \E name \in Names : \E labels \in LabelMaps :
        /\ Finished(p)
        /\ call[p].verb = "IncrementCounterBy"
        /\ call[p].name = name
        /\ call[p].labels = labels
        /\ Len(vecs) = 1
        /\ CounterValue(name, labels) = 3

\* C3: per kind and name at most one vector is ever registered; unless the
\* name is registered by another kind, at most one vector is constructed
\* for it, and it is the registered and stored one; all callers past
\* getOrCreate operate on that vector.
C3_AtMostOneRegistration ==
    /\ \A kind \in Kinds : \A name \in Names :
          /\ Cardinality(RegisteredAs(kind, name)) <= 1
          /\ ~ TakenByOtherKind(kind, name) =>
                /\ Cardinality(Constructed(kind, name)) <= 1
                /\ Constructed(kind, name) = RegisteredAs(kind, name)
                /\ \A id \in Constructed(kind, name) : MapOf(kind)[name] = id
    /\ \A p, q \in Procs :
          ( /\ pc[p] \in {"with", "apply"}
            /\ pc[q] \in {"with", "apply"}
            /\ CallKind(p) = CallKind(q)
            /\ call[p].name = call[q].name )
          => handle[p] = handle[q]

\* two callers performed the first operation on a name concurrently (both
\* were waiting for the lock before the vector existed) and now hold the
\* same, only, vector
C3_Witness ==
    /\ \A p \in Procs : pc[p] \in {"with", "apply"}
    /\ \A p, q \in Procs : /\ handle[p] = handle[q]
                           /\ call[p].name = call[q].name
                           /\ CallKind(p) = CallKind(q)
    /\ Len(vecs) = 1

\* the vector bound to the name in the map of its kind
Bound(kind, name) == vecs[MapOf(kind)[name]]

\* the running or last call of p names an existing vector of its kind with
\* a label key set other than the bound one
Mismatched(p) ==
    /\ call[p] # NoCall
    /\ Exists(CallKind(p), call[p].name)
    /\ KeySetDiffers(Bound(CallKind(p), call[p].name), call[p].labels)

\* C4: the key set bound to a name of a kind is the key set of the label map
\* of the first call that resolved the name, and no later step changes the
\* bound vector or its label keys.
C4_FirstWriterWins ==
    [][ /\ \A kind \in Kinds : \A name \in Names :
              MapOf(kind)'[name] # None =>
                  KeySet(vecs'[MapOf(kind)'[name]]) = LabelNames(firstLabels'[<<kind, name>>])
        /\ \A kind \in Kinds : \A name \in Names :
              MapOf(kind)[name] # None =>
                  /\ MapOf(kind)'[name] = MapOf(kind)[name]
                  /\ vecs'[MapOf(kind)[name]].keys = Bound(kind, name).keys
      ]_vars

\* a call with another key set has run to its end on a bound name, and the
\* bound key set is still the first one
C4_Witness ==
    \E p \in Procs :
        /\ Finished(p)
        /\ Mismatched(p)
        /\ KeySet(Bound(CallKind(p), call[p].name))
               = LabelNames(firstLabels[<<CallKind(p), call[p].name>>])
        /\ firstLabels[<<CallKind(p), call[p].name>>] # call[p].labels

\* C5 (as claimed): a call whose label key set differs from the bound one
\* ends with an error result and never with a panic.
C5_MismatchIsErrorResult ==
    \A p \in Procs :
        (Finished(p) /\ Mismatched(p)) => outcome[p].result # "panic"

\* C6: no step of a call that names an existing vector with a key set other
\* than the bound one changes a map, the registry, a vector or a series.
C6_MismatchCorruptsNothing ==
    [][ \A p \in Procs :
            (InFlight(p) /\ Mismatched(p) /\ pc'[p] # pc[p])
            => UNCHANGED <<counters, gauges, histograms, registry, vecs>>
      ]_vars

\* a mismatched call has ended on a counter that holds a series with a value
C6_Witness ==
    \E p \in Procs :
        /\ Finished(p)
        /\ Mismatched(p)
        /\ outcome[p] = Panicked("SchemaMismatch")
        /\ CallKind(p) = "counter"
        /\ \E labels \in LabelMaps : CounterValue(call[p].name, labels) > 0
        /\ call[p].labels \notin DOMAIN Bound("counter", call[p].name).series

\* a call the registry has to accept: a counter delta that is not negative,
\* and the bound key set when the name is bound in the map of its kind
ValidCall(p) ==
    /\ call[p].verb = "IncrementCounterBy" => call[p].value >= 0
    /\ ~ Mismatched(p)

\* C7 (as claimed): after a call has failed, the lock is not left held and
\* every later valid call returns normally.
C7_UsableAfterError ==
    \A p \in Procs :
        /\ pc[p] \in {"idle", "done"} => mu # p
        /\ (Finished(p) /\ afterError[p] /\ ValidCall(p)) => outcome[p] = Returned

\* C8 (as claimed): a negative delta ends the call with an InvalidArgument
\* error result.
C8_NegativeDeltaIsError ==
    \A p \in Procs :
        (Finished(p) /\ call[p].verb = "IncrementCounterBy" /\ call[p].value < 0)
        => outcome[p] = [result |-> "error", cause |-> "InvalidArgument"]

\* C9: no step removes a counter series or decreases its value.
C9_CounterMonotonic ==
    [][ \A id \in VecIds :
            vecs[id].kind = "counter" =>
                \A labels \in DOMAIN vecs[id].series :
                    /\ labels \in DOMAIN vecs'[id].series
                    /\ vecs'[id].series[labels] >= vecs[id].series[labels]
      ]_vars

\* a call with a negative delta has ended on a series that holds a value
C9_Witness ==
    \E p \in Procs :
        /\ Finished(p)
        /\ call[p].verb = "IncrementCounterBy"
        /\ call[p].value < 0
        /\ CounterValue(call[p].name, call[p].labels) > 0

\* C10 (as claimed): the first operation of a kind on a name succeeds
\* whatever the other kinds hold under that name: no call fails because
\* the name is already registered.
C10_KindsIndependent ==
    \A p \in Procs :
        Finished(p) => outcome[p] # Panicked("AlreadyRegistered")

\* ---- the push loop: definitions shared by the properties ----
\* StartGrafanaPush has been called and has started the goroutine
LoopStarted == loop \in {"spawned", "push", "select", "exited"}

\* some push setting of the configuration passed to NewMetrics is unset
PushSettingUnset == given.url = "" \/ given.user = "" \/ given.key = ""

\* C11 (as claimed): with the URL, the user or the API key unset the push
\* is disabled: no loop is ever started and no HTTP request is ever issued.
C11_DisabledWhenAnyUnset ==
    PushSettingUnset => (~LoopStarted /\ nsent = 0)

\* the goroutine is past time.NewTicker and has not returned
LoopRunning == loop \in {"push", "select"}

\* C12: once the goroutine runs, the first push has begun without a tick
\* (pushes = 1 + ticks received), every later push has received exactly one
\* tick, and the ticks are those of a ticker of the configured interval, 15
\* seconds when that interval is zero: no more ticks have been produced
\* than intervals have passed.
C12_FirstPushThenOnePerTick ==
    LET interval == IF given = NilConfig \/ given.interval = 0 THEN 15
                    ELSE given.interval
    IN  /\ pushes = (IF loop \in {"push", "select", "exited"} THEN 1 ELSE 0) + ticksUsed
        /\ LoopRunning => period = interval
        /\ ticksUsed + tickC <= now \div interval
        /\ (pushes = 1 /\ loop = "push") => ticksUsed = 0

\* C12 witness: an interval configured as zero, and the second push begun
\* on the tick of the fifteenth second.
C12_Witness ==
    /\ given # NilConfig
    /\ given.interval = 0
    /\ pushes = 2
    /\ ticksUsed = 1
    /\ loop = "push"
    /\ now = 15

\* C13 (as claimed): once the context is cancelled no pushToGrafana call
\* begins, whether the context was cancelled before StartGrafanaPush or a
\* tick is ready together with the cancellation.
C13_NoPushAfterCancel == ~pushedAfterCancel

\* C14: cancelling the context changes nothing of a push in progress, a
\* push in progress always ends by returning to the select, never by the
\* goroutine's exit, and once the context is cancelled a started loop
\* eventually exits with its ticker stopped.
C14_CancelLetsPushFinishThenExits ==
    /\ [][ /\ (ctxDone' # ctxDone) => (ppc' = ppc /\ loop' = loop /\ nsent' = nsent)
           /\ (loop = "push") => (loop' \in {"push", "select"}) ]_vars
    /\ ((ctxDone /\ LoopStarted) ~> (loop = "exited" /\ period = 0))

\* C14 witness: the context is cancelled while a request that was sent
\* before the cancellation is awaiting its response.
C14_Witness ==
    /\ ctxDone
    /\ loop = "push"
    /\ ppc = "await"
    /\ ~pushedAfterCancel

\* C15: whatever pushToGrafana returns, the loop is back at its select
\* when the call ends; the loop exits only through the cancellation; and
\* at the select a ready tick can always be received and starts a push.
C15_FailedPushKeepsLoop ==
    /\ [][ (ppc # "none" /\ ppc' = "none") => loop' = "select" ]_vars
    /\ [](loop = "exited" => ctxDone)
    /\ []((loop = "select" /\ tickC = 1) => ENABLED OnTick)

\* C15 witness: the first push and the one after it have failed before a
\* request was sent, the context is not cancelled, and the next tick has
\* started a third push.
C15_Witness ==
    /\ pushes = 3
    /\ nsent = 0
    /\ lastErr \in {"gather", "encode", "request"}
    /\ ppc = "gather"
    /\ ~ctxDone

\* C16: a request is issued only by the push in progress and at most once
\* by each push, so the requests never outnumber the pushes begun (the
\* immediate one and one per tick); the body of a request is the encoding
\* of the snapshot it was sent with, and that snapshot is the registry's
\* content as gathered by the same call.
C16_NoRetryNoBuffering ==
    /\ [](nsent <= pushes)
    /\ [][ (nsent' # nsent) =>
              /\ nsent' = nsent + 1
              /\ lastSent.push < pushes
              /\ lastSent'.push = pushes
              /\ lastSent'.families = snap
              /\ lastSent'.body = Encode(snap) ]_vars
    /\ [][ (ppc = "gather" /\ ppc' = "encode") => snap' = GatherNow ]_vars

\* C16 witness: the first push was sent and failed, the service's gauge was
\* set, and the second push has sent a request that carries the gauge.
C16_Witness ==
    /\ pushes = 2
    /\ nsent = 2
    /\ ppc = "await"
    /\ lastErr \in {"transport", "status"}
    /\ \E f \in lastSent.families : f.name = FQName("b")

\* pushToGrafana returns after client.Do has returned a response
Responded == ppc = "await" /\ ppc' = "none" /\ lastErr' # "transport"

\* C17 (as claimed): a push whose response status is in the 2xx range
\* returns nil, and a push with any other response status returns an error.
C17_SuccessIffStatus2xx ==
    [][ Responded => (lastErr' = "nil" <=> lastStatus' \in 200..299) ]_vars

\* no vector has a series: nothing has been recorded
NothingRecorded == \A i \in 1..Len(vecs) : DOMAIN vecs[i].series = {}

\* C18 (as claimed): a push made while no series has been recorded sends a
\* request whose payload is empty.
C18_EmptyPayloadWhenNothingRecorded ==
    [][ (nsent' # nsent /\ NothingRecorded) => lastSent'.body = EmptyBuffer ]_vars

\* C18 (amended): a push made while no series has been recorded is not cut
\* short: an empty snapshot goes from encode to the request; the push sends
\* one request, whose payload is empty when the HTTP metrics are disabled and
\* holds only the in-flight gauge, at zero, when they are enabled; a
\* response of 204 makes the push a success.
C18_NothingRecordedStillPushes ==
    /\ [][ (ppc = "encode" /\ snap = {} /\ ppc' # ppc) => ppc' = "request" ]_vars
    /\ [][ (nsent' # nsent /\ NothingRecorded) =>
              /\ nsent' = nsent + 1
              /\ lastSent'.body = IF httpMetrics
                                  THEN EncodeFamily(InFlightFamily(config.constLabels))
                                  ELSE EmptyBuffer ]_vars
    /\ [][ (Responded /\ lastStatus' = StatusNoContent) => lastErr' = "nil" ]_vars

\* C18 witness: with the HTTP metrics disabled and nothing recorded, a push
\* has sent an empty payload, was answered 204 and returned nil.
C18_Witness ==
    /\ NothingRecorded
    /\ ~httpMetrics
    /\ nsent = 1
    /\ lastSent.body = EmptyBuffer
    /\ lastStatus = StatusNoContent
    /\ lastErr = "nil"
    /\ loop = "select"

\* ---- the pull endpoint ----
\* the series the snapshot fams holds under the metric name
SeriesOf(fams, name) ==
    UNION { f.metrics : f \in { g \in fams : g.name = FQName(name) } }

\* C19: when SetGauge(x, v, nil) has set the value and returns, the
\* snapshot the pull endpoint gathers holds exactly one family for x, a
\* gauge, with exactly one series: its value is v and its labels are the
\* constant labels of the configuration.
C19_SnapshotAfterSetGauge ==
    [][ \A p \in Procs :
          ( /\ pc[p] = "apply"
            /\ pc'[p] = "done"
            /\ call[p].verb = "SetGauge"
            /\ call[p].labels = {} )
          => /\ Cardinality({ f \in GatherNow' : f.name = FQName(call[p].name) }) = 1
             /\ \A f \in GatherNow' : f.name = FQName(call[p].name) => f.kind = "gauge"
             /\ SeriesOf(GatherNow', call[p].name) =
                   { [labels |-> config.constLabels, value |-> call[p].value] } ]_vars

\* C19 witness: a SetGauge call without labels has returned and the
\* snapshot holds its series with the value set.
C19_Witness ==
    \E p \in Procs :
        /\ Finished(p)
        /\ outcome[p] = Returned
        /\ call[p].verb = "SetGauge"
        /\ call[p].labels = {}
        /\ config.constLabels # {}
        /\ SeriesOf(GatherNow, call[p].name) =
              { [labels |-> config.constLabels, value |-> call[p].value] }

\* ---- histograms ----
\* the RecordHistogram calls on the series (name, labels) that have returned
Recorded(name, labels) ==
    { p \in Procs : /\ Finished(p)
                    /\ outcome[p] = Returned
                    /\ call[p].verb = "RecordHistogram"
                    /\ call[p].name = name
                    /\ call[p].labels = labels }

RECURSIVE SumOfValues(_)
\* the sum of the values of the calls of the callers ps
SumOfValues(ps) ==
    IF ps = {} THEN 0
    ELSE LET p == CHOOSE q \in ps : TRUE
         IN  call[p].value + SumOfValues(ps \ {p})

\* C20: a histogram series holds as many samples as RecordHistogram calls
\* on its name and labels have returned, its sum is the sum of their
\* values, each of its buckets counts the values up to the bucket's bound,
\* and the bounds are the ones the vector was created with.
C20_HistogramCountAndSum ==
    \A name \in Names : \A labels \in LabelMaps :
        LET done == Recorded(name, labels)
        IN  /\ (done # {}) =>
                  (histograms[name] # None /\ HasSeries(vecs[histograms[name]], labels))
            /\ (histograms[name] # None /\ HasSeries(vecs[histograms[name]], labels)) =>
                  LET vec == vecs[histograms[name]]
                      h == vec.series[labels]
                  IN  /\ h.count = Cardinality(done)
                      /\ h.sum = SumOfValues(done)
                      /\ vec.buckets = DefBuckets
                      /\ DOMAIN h.le = DOMAIN vec.buckets
                      /\ \A i \in DOMAIN h.le :
                            h.le[i] = Cardinality({ p \in done : call[p].value <= vec.buckets[i] })

\* C20 witness: two calls with different values on one series have
\* returned: the series counts 2 and sums to 5.1.
C20_Witness ==
    /\ histograms["a"] # None
    /\ HasSeries(vecs[histograms["a"]], {})
    /\ vecs[histograms["a"]].series[{}].count = 2
    /\ vecs[histograms["a"]].series[{}].sum = 5100
    /\ Cardinality(Recorded("a", {})) = 2

\* C21 (as claimed): the push takes its snapshot under the read side of
\* m.mu, so no snapshot is gathered while a goroutine holds the mutex
\* inside getOrCreate.
C21_SnapshotUnderLock ==
    [][ (ppc = "gather" /\ ppc' = "encode") => mu = None ]_vars

\* C22 (as claimed): NewMetrics with EnableHTTPMetrics false and a
\* ServiceName yields a nil httpMetrics, and with EnableHTTPMetrics true a
\* non-nil one.
C22_HTTPMetricsFollowFlag ==
    (given # NilConfig /\ (given.enableHTTP \/ given.serviceName # ""))
        => (httpMetrics <=> given.enableHTTP)

\* ---- the HTTP middleware: definitions shared by the properties ----
\* the step is one of request r
StepOf(r) == rpc'[r] # rpc[r]

\* C23 (as claimed): a request for the path /metrics that passes through
\* GinMiddleware or Middleware changes no HTTP metric.
C23_MetricsPathNotMeasured ==
    [][ \A r \in Reqs :
          ( /\ StepOf(r)
            /\ req'[r].path = "/metrics"
            /\ req'[r].via \in {"GinMiddleware", "Middleware"} )
          => UNCHANGED <<inflight, httpVecs>> ]_vars

\* the same request sent through Middleware
ViaMiddleware(q) == [q EXCEPT !.via = "Middleware"]

\* C24: a request on which the skipper of MiddlewareWithSkipper returns
\* true changes no HTTP metric at any of its steps and has run the next
\* handler exactly once when it has left; a request on which it returns
\* false is measured, labelled and recorded as the same request through
\* Middleware is, and it too runs the next handler once.
C24_SkipperSkipsOrMeasures ==
    /\ [][ \A r \in Reqs :
             (StepOf(r) /\ req'[r].via = "MiddlewareWithSkipper" /\ req'[r].skip)
             => UNCHANGED <<inflight, httpVecs>> ]_vars
    /\ [](\A r \in Reqs :
             req[r].via = "MiddlewareWithSkipper" =>
               /\ handled[r] = (IF rpc[r] \in {"record", "left", "panicked"} THEN 1 ELSE 0)
               /\ ~req[r].skip =>
                    /\ Measured(req[r]) = Measured(ViaMiddleware(req[r]))
                    /\ StatusLabel(req[r]) = StatusLabel(ViaMiddleware(req[r]))
                    /\ RecordsResponseSize(req[r])
                         = RecordsResponseSize(ViaMiddleware(req[r])))

\* C24 witness: with the HTTP metrics enabled, one request was skipped and
\* one was not; both have left, each after one run of the next handler,
\* and only one request was counted.
C24_Witness ==
    /\ httpMetrics
    /\ \E r, t \in Reqs :
        /\ req[r].via = "MiddlewareWithSkipper" /\ req[r].skip /\ rpc[r] = "left"
        /\ req[t].via = "MiddlewareWithSkipper" /\ ~req[t].skip /\ rpc[t] = "left"
        /\ req[r].path = req[t].path
        /\ handled[r] = 1 /\ handled[t] = 1
        /\ inflight = 0
        /\ \E l \in DOMAIN httpVecs.RequestsTotal.series :
              httpVecs.RequestsTotal.series[l] = 1

\* the measured requests that have entered the middleware and not left it
InProgress == { r \in Reqs : rpc[r] \in {"next", "record"} /\ Measured(req[r]) }

\* C25: in every state the in-flight gauge is the number of measured
\* requests inside the middleware; it is never negative, and it is 0 when
\* no request is in progress, whether the requests left by returning or by
\* a panic of the next handler.
C25_InFlightCountsRequests ==
    /\ inflight = Cardinality(InProgress)
    /\ inflight >= 0
    /\ (\A r \in Reqs : rpc[r] \in {"idle", "left", "panicked"}) => inflight = 0

\* C25 witness: of two measured requests one has returned and the handler
\* of the other has panicked, and the gauge is 0.
C25_Witness ==
    /\ inflight = 0
    /\ \E r, t \in Reqs :
        /\ Measured(req[r]) /\ rpc[r] = "panicked"
        /\ Measured(req[t]) /\ rpc[t] = "left"

\* ---- gauges ----
\* the calls of the verb on the series (name, labels) that have returned
Returns(verb, name, labels) ==
    { p \in Procs : /\ Finished(p)
                    /\ outcome[p] = Returned
                    /\ call[p].verb = verb
                    /\ call[p].name = name
                    /\ call[p].labels = labels }

\* C26: the step that applies a gauge verb makes the series exactly the
\* given value (SetGauge), one more (IncrementGauge) or one less
\* (DecrementGauge) than it was, below zero too; and as long as no SetGauge
\* is made, a gauge series holds, in every interleaving, the number of
\* IncrementGauge calls that have returned minus that of DecrementGauge calls.
C26_GaugeSemantics ==
    /\ [][ \A p \in Procs :
             (pc[p] = "apply" /\ pc'[p] = "done" /\ CallKind(p) = "gauge") =>
               LET old == vecs[handle[p]].series[call[p].labels]
                   new == vecs'[handle[p]].series[call[p].labels]
               IN  /\ call[p].verb = "SetGauge" => new = call[p].value
                   /\ call[p].verb = "IncrementGauge" => new = old + 1
                   /\ call[p].verb = "DecrementGauge" => new = old - 1 ]_vars
    /\ [](\A name \in Names : \A labels \in LabelMaps :
             ( /\ gauges[name] # None
               /\ HasSeries(vecs[gauges[name]], labels)
               /\ \A p \in Procs : call[p].verb # "SetGauge" )
             => vecs[gauges[name]].series[labels] =
                    Cardinality(Returns("IncrementGauge", name, labels))
                    - Cardinality(Returns("DecrementGauge", name, labels)))

\* C26 witness: the gauge was first touched by a DecrementGauge, which
\* has returned while nothing else has touched the series: it holds -1.
C26_Witness ==
    /\ gauges["a"] # None
    /\ HasSeries(vecs[gauges["a"]], {})
    /\ vecs[gauges["a"]].series[{}] = -1
    /\ Cardinality(Returns("DecrementGauge", "a", {})) = 1
    /\ \A p \in Procs : ~Finished(p) => pc[p] \in {"idle", "lock"}

\* ---- label order ----
\* C27: calls on one name whose label maps have the same keys are served
\* by one vector whatever order their keys were enumerated in: every call
\* returns, all get the same vector, and the series of a label map counts
\* the calls made with that very map.
C27_LabelOrderIndependent ==
    /\ \A p \in Procs : Finished(p) => outcome[p] = Returned
    /\ \A p, q \in Procs :
          (handle[p] # None /\ handle[q] # None /\ call[p].name = call[q].name
             /\ CallKind(p) = CallKind(q))
          => handle[p] = handle[q]
    /\ \A labels \in OrderLabelMaps :
          (counters["a"] # None /\ HasSeries(vecs[counters["a"]], labels)) =>
             vecs[counters["a"]].series[labels]
                = Cardinality(Returns("IncrementCounterBy", "a", labels))

\* C27 witness: two calls with the same label map, its keys enumerated in
\* the two orders, have returned and have counted on one series.
C27_Witness ==
    \E p, q \in Procs :
        /\ Finished(p) /\ Finished(q)
        /\ call[p].labels = call[q].labels
        /\ labelKeys[p] = <<"k1", "k2">>
        /\ labelKeys[q] = <<"k2", "k1">>
        /\ handle[p] = handle[q]
        /\ vecs[handle[p]].series[call[p].labels] = 2

\* ---- snapshots ----
\* the value a snapshot reports for the counter series (name, labels), 0
\* when the snapshot has no such series
SnapValue(fams, name, labels) ==
    LET ms == { m \in SeriesOf(fams, name) :
                  m.labels = SeriesLabels(labels, config.constLabels) }
    IN  IF ms = {} THEN 0 ELSE (CHOOSE m \in ms : TRUE).value

\* C28: the snapshot the pull endpoint gathers while goroutines add to a
\* counter reports for the series the value it holds at that moment, which
\* includes every increment that has returned; and it is not below the
\* value the snapshot before it reported.  (A push gathers the same way:
\* C16.)
C28_SnapshotSeesCompletedWrites ==
    [][ (pulled' # pulled) =>
          \A labels \in LabelMapsOf("b") :
             /\ SnapValue(pulled', "b", labels) = CounterValue("b", labels)
             /\ SnapValue(pulled', "b", labels)
                   >= SumOfValues(Returns("IncrementCounterBy", "b", labels))
             /\ SnapValue(pulled', "b", labels) >= SnapValue(pulled, "b", labels) ]_vars

\* C28 witness: a snapshot was served while one increment had returned and
\* another was about to add to the series: it reports the first alone.
C28_Witness ==
    /\ SnapValue(pulled, "b", {}) > 0
    /\ SnapValue(pulled, "b", {}) = CounterValue("b", {})
    /\ \E p, q \in Procs :
          /\ Finished(p) /\ outcome[p] = Returned
          /\ call[p].value = SnapValue(pulled, "b", {})
          /\ pc[q] = "apply" /\ call[q].value > 0

\* a step of the push loop or of pushToGrafana
PushStep == ppc' # ppc \/ loop' # loop \/ nsent' # nsent \/ ticksUsed' # ticksUsed

\* C29: no step of the push loop, of a push that succeeds or of one that
\* fails, changes a series, a vector's label names, the registry or one of
\* the three maps, nor the position or the outcome of an instrumentation
\* call.
C29_PushReadsOnly ==
    [][ PushStep => UNCHANGED <<counters, gauges, histograms, registry, vecs, mu,
                                pc, call, handle, outcome, failed>> ]_vars

\* C29 witness: a push has failed after the service's gauge was set, and
\* the gauge holds its value and the service's call its result.
C29_Witness ==
    /\ lastErr \in {"gather", "encode", "transport", "status"}
    /\ loop = "select"
    /\ \E f \in snap : f.name = FQName("b")
    /\ gauges["b"] # None
    /\ vecs[gauges["b"]].series[{}] = 5
    /\ outcome[Service] = Returned

\* the steps of pushToGrafana in their order, each followed by the next
\* or by the return
PushOrder ==
    { <<"none", "gather">>, <<"gather", "encode">>, <<"encode", "request">>,
      <<"request", "send">>, <<"send", "await">> }
    \cup { <<at, "none">> : at \in {"gather", "encode", "request", "await"} }

\* C30: within a push the steps run in the order gather, encode, request,
\* transmit, each reached only from the one before it in the same push; a
\* request is sent only at the transmit step; and a push that fails at
\* gather or at encode returns without having sent a request.
C30_StepsInOrder ==
    /\ [][ (ppc' # ppc) => <<ppc, ppc'>> \in PushOrder ]_vars
    /\ [][ (nsent' # nsent) => (ppc = "send" /\ ppc' = "await") ]_vars
    /\ [][ (ppc \in {"gather", "encode"} /\ ppc' = "none") =>
              /\ lastErr' \in {"gather", "encode"}
              /\ nsent' = nsent
              /\ lastSent.push < pushes ]_vars

\* C30 witness: the first push failed at gather or encode and sent
\* nothing; the second has sent the only request.
C30_Witness ==
    /\ pushes = 2
    /\ ppc = "await"
    /\ lastErr \in {"gather", "encode"}
    /\ nsent = 1
    /\ lastSent.push = 2

\* ---- C31 ----
\* a push of the loop is between its Gather and its return
Transmitting == ppc \in {"encode", "request", "send", "await"}

SeriesIn(vs) ==
    { s \in (1..Len(vs)) \X (LabelMaps \cup OrderLabelMaps) :
        s[2] \in DOMAIN vs[s[1]].series }

\* C32: a step of a call on (kind, name, label values) touches the one
\* series of these label values in the vector of this kind and name, and
\* nothing else: every other series of every vector keeps its value, no
\* series disappears and no vector changes its name, kind or label keys;
\* the only series that can appear is the call's, at the zero value of its
\* kind; and the only series that can change is the call's, to the result
\* of the call's operation on its old value.
C32_OperationsAreLocal ==
    [][ \A p \in Procs : (pc'[p] # pc[p]) =>
          LET target == <<handle'[p], call'[p].labels>>
          IN  /\ Len(vecs') >= Len(vecs)
              /\ \A id \in 1..Len(vecs) :
                    /\ vecs'[id].kind = vecs[id].kind
                    /\ vecs'[id].name = vecs[id].name
                    /\ vecs'[id].keys = vecs[id].keys
              /\ SeriesIn(vecs) \subseteq SeriesIn(vecs')
              /\ \A s \in SeriesIn(vecs) :
                    \/ vecs'[s[1]].series[s[2]] = vecs[s[1]].series[s[2]]
                    \/ /\ s = target
                       /\ pc[p] = "apply"
                       /\ vecs[s[1]].kind = CallKind(p)
                       /\ vecs[s[1]].name = call[p].name
                       /\ vecs'[s[1]].series[s[2]] =
                              Applied(call[p].verb, vecs[s[1]].series[s[2]], call[p].value)
              /\ \A s \in SeriesIn(vecs') \ SeriesIn(vecs) :
                    /\ s = target
                    /\ pc[p] = "with"
                    /\ vecs'[s[1]].kind = CallKind(p)
                    /\ vecs'[s[1]].name = call[p].name
                    /\ vecs'[s[1]].series[s[2]] = ZeroValue(CallKind(p))
      ]_vars

\* Two calls on two series of one vector have returned, the second series
\* having been created and incremented while the first one held its value.
C32_Witness ==
    /\ \A p \in Procs : Finished(p) /\ outcome[p] = Returned
    /\ \E p, q \in Procs :
        /\ call[p].labels # call[q].labels
        /\ handle[p] = handle[q]
        /\ handle[p] # None
        /\ vecs[handle[p]].series[call[p].labels] = 1
        /\ vecs[handle[q]].series[call[q].labels] = 1

\* ---- C33 ----
\* the value of the gauge series (name, labels); 0 while it does not exist
GaugeValue(name, labels) ==
    IF gauges[name] # None /\ labels \in DOMAIN vecs[gauges[name]].series
    THEN vecs[gauges[name]].series[labels]
    ELSE 0

\* the goroutines whose call of the helper has returned
\* (ConnectionOpened has returned when its last call, on the total, has)
HasReturned(last) ==
    { p \in Procs : call[p] = last /\ Finished(p) /\ outcome[p] = Returned }

\* C33: no call of the connection helpers panics, and once the calls that
\* were made have all returned, in whatever order and interleaving they
\* ran, the gauge websocket_connections_active is the number of
\* ConnectionOpened calls minus the number of ConnectionClosed calls and
\* the counter websocket_connections_total is the number of
\* ConnectionOpened calls.
C33_ConnectionAccounting ==
    /\ failed = {}
    /\ LET opened == HasReturned(OpenedTotal)
           closed == HasReturned(ClosedActive)
       IN  (\A p \in Procs : pc[p] = "idle" \/ p \in opened \cup closed) =>
              /\ GaugeValue("websocket_connections_active", {})
                    = Cardinality(opened) - Cardinality(closed)
              /\ CounterValue("websocket_connections_total", {}) = Cardinality(opened)

\* Every goroutine has reported a connection, opened ones and closed ones
\* among them, and all the calls have returned.
C33_Witness ==
    /\ Procs = HasReturned(OpenedTotal) \cup HasReturned(ClosedActive)
    /\ HasReturned(OpenedTotal) # {}
    /\ HasReturned(ClosedActive) # {}

====
